---- MODULE Spec2Model ----
(***************************************************************************)
(* Blog discovery and loading (src/blogs.rs): the recursive walk that      *)
(* finds every directory holding a blog.yml, Blog::load (manifest, posts,  *)
(* descending url order, show_year) and the prefix serialisation.          *)
(*                                                                         *)
(* Strings are sequences of tokens (a token is a run of characters holding *)
(* no '.', '/', '_' or '-', or one of those characters alone), so that     *)
(* extension(), strip_prefix(), the kebab-case renaming and the trailing   *)
(* slash are computed.  A url is a sequence of character codes, compared   *)
(* lexicographically as Rust compares Strings.  A path is a sequence of    *)
(* component names.  Option values are <<>> (None) and <<v>> (Some(v)).    *)
(***************************************************************************)
EXTENDS Naturals, Sequences, FiniteSets, TLC

\* fs     the directory tree under base (it does not change during a load)
\* pc     where the single thread is: "start", "walk" (the loop of
\*        load_recursive), "manifest", "scan", "year", "build" (in
\*        Blog::load), "done"
\* stack  the frames of load_recursive: the directory and the entry its loop
\*        is at
\* cur    the locals of the running Blog::load
\* blogs  the Vec<Blog> that load accumulates
\* ret    what load returned: Ok(blogs), Err, or a panic that unwound it
\* log    the calls made so far to read_dir, read_to_string, Blog::load and
\*        Post::open, with their paths
VARIABLES fs, pc, stack, cur, blogs, ret, log

vars == <<fs, pc, stack, cur, blogs, ret, log>>

\* ------------------------------------------------------------ bounds

\* How many content files the single-blog directories hold at most.
MaxBlogPosts == 3
\* How many content files the year-grouping directories hold at most.
MaxYearPosts == 6

\* ------------------------------------------------------------ values

None == <<>>
Some(v) == <<v>>

MANIFEST_FILE == <<"blog", ".", "yml">>
POSTS_EXT == <<"md">>

\* A byte sequence that is not valid UTF-8 (OsStr::to_str gives None).
NonUtf8 == "\\xFF"

Max(S) == CHOOSE m \in S : \A n \in S : n <= m

Reverse(s) == [i \in 1..Len(s) |-> s[Len(s) + 1 - i]]

\* OsStr::to_str: None unless the name is valid UTF-8.
ToStr(name) == IF \E i \in 1..Len(name) : name[i] = NonUtf8 THEN None ELSE Some(name)

\* Path::join with one component, Path::file_name, Path::parent.
Join(dir, name) == Append(dir, name)
FileName(path) == IF path = <<>> THEN None ELSE Some(path[Len(path)])
Parent(path) == IF path = <<>> THEN None ELSE Some(SubSeq(path, 1, Len(path) - 1))

\* Path::extension: what follows the last '.' of the file name; None when
\* the name has no '.', or only a leading one.
Extension(path) ==
    IF path = <<>> THEN None
    ELSE LET name == path[Len(path)]
             dots == {i \in 1..Len(name) : name[i] = "."}
         IN  IF dots = {} \/ Max(dots) = 1 THEN None
             ELSE Some(SubSeq(name, Max(dots) + 1, Len(name)))

\* Path::strip_prefix: Ok(the rest) when base is a prefix of path.
StripPrefix(path, base) ==
    IF Len(base) <= Len(path) /\ SubSeq(path, 1, Len(base)) = base
    THEN [ok |-> TRUE, path |-> SubSeq(path, Len(base) + 1, Len(path))]
    ELSE [ok |-> FALSE, path |-> <<>>]

\* Path::to_string_lossy: the components separated by '/'.
RECURSIVE ToStringLossy(_)
ToStringLossy(path) ==
    IF path = <<>> THEN <<>>
    ELSE IF Len(path) = 1 THEN path[1]
    ELSE path[1] \o <<"/">> \o ToStringLossy(Tail(path))

\* The slash pushed whatever the string.
add_postfix_slash_noguard(path) == Append(ToStringLossy(path), "/")

add_postfix_slash(path) ==
    LET str_repr == ToStringLossy(path)
    IN  IF str_repr # <<>> THEN Append(str_repr, "/") ELSE str_repr

\* String comparison: lexicographic on the characters, a proper prefix first.
RECURSIVE StrLess(_, _)
StrLess(a, b) ==
    IF b = <<>> THEN FALSE
    ELSE IF a = <<>> THEN TRUE
    ELSE IF Head(a) # Head(b) THEN Head(a) < Head(b)
    ELSE StrLess(Tail(a), Tail(b))

StrLeq(a, b) == a = b \/ StrLess(a, b)

\* ------------------------------------------------------------ manifest

\* The fields of struct Manifest, in declaration order, with their types.
ManifestFields ==
    << [name |-> <<"title">>, ty |-> "String"],
       [name |-> <<"index", "_", "title">>, ty |-> "String"],
       [name |-> <<"description">>, ty |-> "String"],
       [name |-> <<"maintained", "_", "by">>, ty |-> "String"],
       [name |-> <<"requires", "_", "team">>, ty |-> "bool"] >>

\* serde's rename_all = "kebab-case" on a snake_case field name.
KebabCase(field) == [i \in 1..Len(field) |-> IF field[i] = "_" THEN "-" ELSE field[i]]

ManifestKey(field) == KebabCase(field)

ManifestKeys == {ManifestKey(ManifestFields[i].name) : i \in 1..Len(ManifestFields)}

\* A struct without deny_unknown_fields: no key is unknown.
UnknownFieldsIgnored(map) == FALSE

\* deny_unknown_fields: is a key of the document one the struct does not have?

HasUnknownField(map) == \E k \in DOMAIN map : k \notin ManifestKeys

\* serde_yaml::from_str::<Manifest>: a document is a YAML mapping from keys
\* to typed scalars ([ty, v]), or something that is no mapping at all.
FromStr(doc) ==
    IF doc.t # "mapping" THEN [ok |-> FALSE, err |-> "syntax"]
    ELSE IF HasUnknownField(doc.map) THEN [ok |-> FALSE, err |-> "unknown field"]
    ELSE IF \E i \in 1..Len(ManifestFields) :
                ManifestKey(ManifestFields[i].name) \notin DOMAIN doc.map
         THEN [ok |-> FALSE, err |-> "missing field"]
    ELSE IF \E i \in 1..Len(ManifestFields) :
                doc.map[ManifestKey(ManifestFields[i].name)].ty # ManifestFields[i].ty
         THEN [ok |-> FALSE, err |-> "invalid type"]
    ELSE [ok |-> TRUE,
          title |-> doc.map[ManifestKey(<<"title">>)].v,
          index_title |-> doc.map[ManifestKey(<<"index", "_", "title">>)].v,
          description |-> doc.map[ManifestKey(<<"description">>)].v,
          maintained_by |-> doc.map[ManifestKey(<<"maintained", "_", "by">>)].v,
          requires_team |-> doc.map[ManifestKey(<<"requires", "_", "team">>)].v]

\* ------------------------------------------------------------ posts

\* Post::open (posts.rs, an external collaborator): the content file decides
\* whether it opens and parses and which url, year and show_year the Post
\* carries; body stands for the rest of the Post.
PostOpen(entry) ==
    IF entry.ok /\ entry.doc.t = "post"
    THEN [ok |-> TRUE,
          post |-> [url |-> entry.doc.url, year |-> entry.doc.year,
                    show_year |-> entry.doc.show_year, body |-> entry.doc.body]]
    ELSE [ok |-> FALSE, post |-> <<>>]

\* One insertion of a stable ascending sort: p goes after every element
\* whose key is not greater than its own.
RECURSIVE InsertByUrl(_, _)
InsertByUrl(sorted, p) ==
    IF sorted = <<>> THEN <<p>>
    ELSE IF StrLess(p.url, Head(sorted).url) THEN <<p>> \o sorted
    ELSE <<Head(sorted)>> \o InsertByUrl(Tail(sorted), p)

\* posts.sort_by_key(|post| post.url.clone()): stable, ascending.
RECURSIVE SortByKey(_)
SortByKey(posts) ==
    IF posts = <<>> THEN <<>>
    ELSE InsertByUrl(SortByKey(SubSeq(posts, 1, Len(posts) - 1)), posts[Len(posts)])

\* A stable sort in descending order: ties keep the discovery order.
RECURSIVE SortDescStable(_)
SortDescStable(posts) ==
    IF posts = <<>> THEN <<>>
    ELSE LET rest == SortDescStable(SubSeq(posts, 1, Len(posts) - 1))
             p == posts[Len(posts)]
             k == Cardinality({i \in 1..Len(rest) : StrLeq(p.url, rest[i].url)})
         IN  SubSeq(rest, 1, k) \o <<p>> \o SubSeq(rest, k + 1, Len(rest))

\* The sort without the reversal.
SortedAscending(posts) == SortByKey(posts)

\* A descending order that keeps one post per url.
RECURSIVE DedupByUrl(_)
DedupByUrl(posts) ==
    IF posts = <<>> THEN <<>>
    ELSE <<Head(posts)>> \o DedupByUrl(SelectSeq(Tail(posts), LAMBDA p : p.url # Head(posts).url))

SortDedup(posts) == DedupByUrl(Reverse(SortByKey(posts)))

\* Lines 44-45: sort ascending by url, then reverse.
SortPostsDesc(posts) == Reverse(SortByKey(posts))

\* The loop of lines 49-51 without line 48: the first post keeps the
\* show_year Post::open gave it.
ShowYearKeepFirst(posts) ==
    [i \in 1..Len(posts) |->
        [posts[i] EXCEPT !.show_year =
            IF i = 1 THEN posts[i].show_year ELSE posts[i - 1].year # posts[i].year]]

\* Lines 48-51, for a non-empty list: the loop writes show_year and reads
\* only year, so every iteration sees the years of the sorted list.
ShowYear(posts) ==
    [i \in 1..Len(posts) |->
        [posts[i] EXCEPT !.show_year =
            IF i = 1 THEN TRUE ELSE posts[i - 1].year # posts[i].year]]

\* ------------------------------------------------------------ filesystem

\* The directory  load  is called on.
Base == << <<"site">>, <<"posts">> >>

\* A directory entry: its name, what metadata() says it is (kind), whether
\* metadata() succeeds (meta), whether reading it succeeds (ok: read_dir of
\* a directory, read_to_string or Post::open of a file), a directory's
\* entries in read_dir order (sub) and a file's content (doc).
NoDoc == [t |-> "none"]
Dir(name, sub) ==
    [name |-> name, kind |-> "dir", meta |-> TRUE, ok |-> TRUE, sub |-> sub, doc |-> NoDoc]
File(name, doc) ==
    [name |-> name, kind |-> "file", meta |-> TRUE, ok |-> TRUE, sub |-> <<>>, doc |-> doc]
Special(name) ==
    [name |-> name, kind |-> "special", meta |-> TRUE, ok |-> TRUE, sub |-> <<>>, doc |-> NoDoc]

\* The entry a path relative to the root entry names, as Some(entry).
RECURSIVE Resolve(_, _)
Resolve(entry, rel) ==
    IF rel = <<>> THEN Some(entry)
    ELSE LET hits == {i \in 1..Len(entry.sub) : entry.sub[i].name = Head(rel)}
         IN  IF entry.kind # "dir" \/ hits = {} THEN None
             ELSE Resolve(entry.sub[CHOOSE i \in hits : TRUE], Tail(rel))

Lookup(path) ==
    LET rel == StripPrefix(path, Base)
    IN  IF rel.ok THEN Resolve(fs, rel.path) ELSE None

\* std::fs::read_dir(path): the entries, when path is a readable directory.
ReadDir(path) ==
    LET e == Lookup(path)
    IN  IF e # None /\ e[1].kind = "dir" /\ e[1].ok
        THEN [ok |-> TRUE, entries |-> e[1].sub]
        ELSE [ok |-> FALSE, entries |-> <<>>]

\* std::fs::read_to_string(path): the content, when path is a readable file.
ReadToString(path) ==
    LET e == Lookup(path)
    IN  IF e # None /\ e[1].kind = "file" /\ e[1].ok
        THEN [ok |-> TRUE, doc |-> e[1].doc]
        ELSE [ok |-> FALSE, doc |-> NoDoc]

\* ------------------------------------------------------------ state

NoManifest ==
    [ok |-> FALSE, title |-> "", index_title |-> "", description |-> "",
     maintained_by |-> "", requires_team |-> ""]

\* The locals of a Blog::load call (none is running when dir is empty).
NoCur == [prefix |-> <<>>, dir |-> <<>>, manifest |-> NoManifest, posts |-> <<>>, idx |-> 0]

NoRet == [tag |-> "None", kind |-> "", blogs |-> <<>>]

Call(op, path) == [op |-> op, path |-> path]

\* The frame of the innermost load_recursive call and the entry its loop is at.
Top == stack[Len(stack)]
TopEntries == ReadDir(Top.current).entries
TopEntry == TopEntries[Top.idx]
TopPath == Join(Top.current, TopEntry.name)
Advance == [stack EXCEPT ![Len(stack)].idx = @ + 1]

\* The entry the loop of Blog::load is at.
CurEntries == ReadDir(cur.dir).entries
CurEntry == CurEntries[cur.idx]
CurPath == Join(cur.dir, CurEntry.name)

\* A walk that keeps what it has on an error: the blogs loaded so far are
\* returned as if the walk had ended.
FailPartial(kind) ==
    /\ ret' = [tag |-> "Ok", kind |-> kind, blogs |-> blogs]
    /\ pc' = "done"
    /\ stack' = <<>>
    /\ cur' = NoCur
    /\ blogs' = blogs

\* An error leaves through every `?` up to the caller of load: the frames,
\* the locals and the accumulated blogs are dropped.
Fail(kind) ==
    /\ ret' = [tag |-> "Err", kind |-> kind, blogs |-> <<>>]
    /\ pc' = "done"
    /\ stack' = <<>>
    /\ cur' = NoCur
    /\ blogs' = <<>>

\* A panic unwinds the same way and returns nothing.
Panic ==
    /\ ret' = [tag |-> "Panic", kind |-> "index out of bounds", blogs |-> <<>>]
    /\ pc' = "done"
    /\ stack' = <<>>
    /\ cur' = NoCur
    /\ blogs' = <<>>

\* ------------------------------------------------------------ load, load_recursive

\* A manifest recognised by its extension alone.
IsManifestByExt(path) ==
    Extension(path) = Some(SubSeq(MANIFEST_FILE, 3, 3)) /\ Parent(path) # None

\* Line 100-102: the entry is the manifest of the directory being listed.
IsManifest(path) ==
    LET file_name == IF FileName(path) = None THEN None ELSE ToStr(FileName(path)[1])
    IN  file_name # None /\ Parent(path) # None /\ file_name[1] = MANIFEST_FILE

\* Lines 103-106: the directory of the manifest, relative to base.
PrefixOf(parent) ==
    LET r == StripPrefix(parent, Base)
    IN  IF r.ok THEN r.path ELSE <<>>

\* A push at the front of the list.
PushFront(list, blog) == <<blog>> \o list

\* Line 107: blogs.push(blog).
PushBlog(list, blog) == Append(list, blog)

\* load(base) calls load_recursive(base, base), whose read_dir succeeds.
Load ==
    /\ pc = "start"
    /\ ReadDir(Base).ok
    /\ stack' = <<[current |-> Base, idx |-> 1]>>
    /\ pc' = "walk"
    /\ log' = Append(log, Call("read_dir", Base))
    /\ UNCHANGED <<fs, cur, blogs, ret>>

\* ... or fails: base is missing, unreadable or no directory.
LoadError ==
    /\ pc = "start"
    /\ ~ReadDir(Base).ok
    /\ log' = Append(log, Call("read_dir", Base))
    /\ Fail("io")
    /\ UNCHANGED fs

\* Lines 94-95: the entry cannot be read or its metadata cannot.
WalkIoError ==
    /\ pc = "walk"
    /\ Top.idx <= Len(TopEntries)
    /\ ~TopEntry.meta
    /\ Fail("io")
    /\ UNCHANGED <<fs, log>>

\* Lines 97-98 and 93: a directory is entered.
WalkDir ==
    /\ pc = "walk"
    /\ Top.idx <= Len(TopEntries)
    /\ TopEntry.meta
    /\ TopEntry.kind = "dir"
    /\ ReadDir(TopPath).ok
    /\ stack' = Append(stack, [current |-> TopPath, idx |-> 1])
    /\ log' = Append(log, Call("read_dir", TopPath))
    /\ UNCHANGED <<fs, pc, cur, blogs, ret>>

\* Lines 97-98 and 93: a directory that cannot be listed.
WalkDirError ==
    /\ pc = "walk"
    /\ Top.idx <= Len(TopEntries)
    /\ TopEntry.meta
    /\ TopEntry.kind = "dir"
    /\ ~ReadDir(TopPath).ok
    /\ log' = Append(log, Call("read_dir", TopPath))
    /\ Fail("io")
    /\ UNCHANGED fs

\* Lines 99-107: a regular file named blog.yml starts Blog::load(prefix, parent).
WalkManifest ==
    /\ pc = "walk"
    /\ Top.idx <= Len(TopEntries)
    /\ TopEntry.meta
    /\ TopEntry.kind = "file"
    /\ IsManifest(TopPath)
    /\ cur' = [NoCur EXCEPT !.prefix = PrefixOf(Parent(TopPath)[1]),
                            !.dir = Parent(TopPath)[1]]
    /\ pc' = "manifest"
    /\ log' = Append(log, Call("Blog::load", Parent(TopPath)[1]))
    /\ UNCHANGED <<fs, stack, blogs, ret>>

\* Lines 99-110: any other regular file, and an entry that is neither a
\* directory nor a regular file, is passed over.
WalkSkip ==
    /\ pc = "walk"
    /\ Top.idx <= Len(TopEntries)
    /\ TopEntry.meta
    /\ \/ TopEntry.kind = "file" /\ ~IsManifest(TopPath)
       \/ TopEntry.kind \notin {"dir", "file"}
    /\ stack' = Advance
    /\ UNCHANGED <<fs, pc, cur, blogs, ret, log>>

\* Line 112, in a nested call: the listing is exhausted, the caller's loop
\* goes on with its next entry.
WalkReturn ==
    /\ pc = "walk"
    /\ Top.idx > Len(TopEntries)
    /\ Len(stack) > 1
    /\ stack' = [SubSeq(stack, 1, Len(stack) - 1) EXCEPT ![Len(stack) - 1].idx = @ + 1]
    /\ UNCHANGED <<fs, pc, cur, blogs, ret, log>>

\* Lines 112 and 85: the outermost call returns and load gives Ok(blogs).
LoadReturn ==
    /\ pc = "walk"
    /\ Top.idx > Len(TopEntries)
    /\ Len(stack) = 1
    /\ ret' = [tag |-> "Ok", kind |-> "", blogs |-> blogs]
    /\ pc' = "done"
    /\ stack' = <<>>
    /\ UNCHANGED <<fs, cur, blogs, log>>

\* ------------------------------------------------------------ Blog::load

\* Line 38-39: the entry is a regular file with the extension md.
IsPostFile(entry, path) ==
    LET ext == IF Extension(path) = None THEN None ELSE ToStr(Extension(path)[1])
    IN  entry.kind = "file" /\ ext = Some(POSTS_EXT)

\* Lines 32-33 and 36: the manifest is read and parsed, the directory listed
\* (line 93 listed the same directory of the same tree just before, so the
\* listing of line 36 succeeds and gives the same entries).
ReadManifest ==
    /\ pc = "manifest"
    /\ ReadToString(Join(cur.dir, MANIFEST_FILE)).ok
    /\ FromStr(ReadToString(Join(cur.dir, MANIFEST_FILE)).doc).ok
    /\ cur' = [cur EXCEPT !.manifest = FromStr(ReadToString(Join(cur.dir, MANIFEST_FILE)).doc),
                          !.idx = 1]
    /\ pc' = "scan"
    /\ log' = log \o <<Call("read_to_string", Join(cur.dir, MANIFEST_FILE)),
                       Call("read_dir", cur.dir)>>
    /\ UNCHANGED <<fs, stack, blogs, ret>>

\* Line 32: the manifest cannot be read.
ReadManifestIoError ==
    /\ pc = "manifest"
    /\ ~ReadToString(Join(cur.dir, MANIFEST_FILE)).ok
    /\ log' = Append(log, Call("read_to_string", Join(cur.dir, MANIFEST_FILE)))
    /\ Fail("io")
    /\ UNCHANGED fs

\* Line 33: the manifest does not parse as a Manifest.
ReadManifestParseError ==
    /\ pc = "manifest"
    /\ ReadToString(Join(cur.dir, MANIFEST_FILE)).ok
    /\ ~FromStr(ReadToString(Join(cur.dir, MANIFEST_FILE)).doc).ok
    /\ log' = Append(log, Call("read_to_string", Join(cur.dir, MANIFEST_FILE)))
    /\ Fail("manifest")
    /\ UNCHANGED fs

\* Lines 37 and 39: the entry cannot be read or its metadata cannot.
ScanIoError ==
    /\ pc = "scan"
    /\ cur.idx <= Len(CurEntries)
    /\ ~CurEntry.meta
    /\ Fail("io")
    /\ UNCHANGED <<fs, log>>

\* Lines 39-40: Post::open on a content file gives a Post.
ScanPost ==
    /\ pc = "scan"
    /\ cur.idx <= Len(CurEntries)
    /\ CurEntry.meta
    /\ IsPostFile(CurEntry, CurPath)
    /\ PostOpen(CurEntry).ok
    /\ cur' = [cur EXCEPT !.posts = Append(@, PostOpen(CurEntry).post), !.idx = @ + 1]
    /\ log' = Append(log, Call("Post::open", CurPath))
    /\ UNCHANGED <<fs, pc, stack, blogs, ret>>

\* Lines 39-40: Post::open fails.
ScanPostError ==
    /\ pc = "scan"
    /\ cur.idx <= Len(CurEntries)
    /\ CurEntry.meta
    /\ IsPostFile(CurEntry, CurPath)
    /\ ~PostOpen(CurEntry).ok
    /\ log' = Append(log, Call("Post::open", CurPath))
    /\ Fail("post")
    /\ UNCHANGED fs

\* Lines 39-41: every other entry is passed over.
ScanSkip ==
    /\ pc = "scan"
    /\ cur.idx <= Len(CurEntries)
    /\ CurEntry.meta
    /\ ~IsPostFile(CurEntry, CurPath)
    /\ cur' = [cur EXCEPT !.idx = @ + 1]
    /\ UNCHANGED <<fs, pc, stack, blogs, ret, log>>

\* Lines 44-45, once the listing is exhausted.
SortPosts ==
    /\ pc = "scan"
    /\ cur.idx > Len(CurEntries)
    /\ cur' = [cur EXCEPT !.posts = SortPostsDesc(@)]
    /\ pc' = "year"
    /\ UNCHANGED <<fs, stack, blogs, ret, log>>

\* Lines 48-51 on at least one post.
MarkYears ==
    /\ pc = "year"
    /\ cur.posts # <<>>
    /\ cur' = [cur EXCEPT !.posts = ShowYear(@)]
    /\ pc' = "build"
    /\ UNCHANGED <<fs, stack, blogs, ret, log>>

\* Line 48 on no post: posts[0] is out of bounds, the thread panics.
MarkYearsPanic ==
    /\ pc = "year"
    /\ cur.posts = <<>>
    /\ Panic
    /\ UNCHANGED <<fs, log>>

\* Lines 53-60: the Blog.
BuildBlog(c) ==
    [title |-> c.manifest.title,
     index_title |-> c.manifest.index_title,
     description |-> c.manifest.description,
     maintained_by |-> c.manifest.maintained_by,
     prefix |-> c.prefix,
     posts |-> c.posts]

\* Lines 53-60 and 107: the Blog is returned and pushed; the walk goes on.
ReturnBlog ==
    /\ pc = "build"
    /\ blogs' = PushBlog(blogs, BuildBlog(cur))
    /\ cur' = NoCur
    /\ stack' = Advance
    /\ pc' = "walk"
    /\ UNCHANGED <<fs, ret, log>>

Next ==
    \/ Load
    \/ LoadError
    \/ WalkIoError
    \/ WalkDir
    \/ WalkDirError
    \/ WalkManifest
    \/ WalkSkip
    \/ WalkReturn
    \/ LoadReturn
    \/ ReadManifest
    \/ ReadManifestIoError
    \/ ReadManifestParseError
    \/ ScanIoError
    \/ ScanPost
    \/ ScanPostError
    \/ ScanSkip
    \/ SortPosts
    \/ MarkYears
    \/ MarkYearsPanic
    \/ ReturnBlog

\* ------------------------------------------------------------ the trees loaded

Str(v) == [ty |-> "String", v |-> v]
Bool(v) == [ty |-> "bool", v |-> v]
Int(v) == [ty |-> "int", v |-> v]

\* A manifest document with the five keys, its values marked by tag.
GoodMap(tag) ==
    (<<"title">> :> Str(<<tag, "title">>)) @@
    (<<"index", "-", "title">> :> Str(<<tag, "index title">>)) @@
    (<<"description">> :> Str(<<tag, "description">>)) @@
    (<<"maintained", "-", "by">> :> Str(<<tag, "maintained by">>)) @@
    (<<"requires", "-", "team">> :> Bool(<<tag, "false">>))

Mapping(map) == [t |-> "mapping", map |-> map]
GoodDoc(tag) == Mapping(GoodMap(tag))

Without(map, key) == [k \in DOMAIN map \ {key} |-> map[k]]
Retyped(map, key) ==
    [map EXCEPT ![key] = IF @.ty = "String" THEN Int(@.v) ELSE Str(@.v)]

\* Documents serde must refuse: a key missing, a key too many (a new one, or
\* a field's snake_case name beside its kebab-case key), a value of the wrong
\* type, a scalar, and text that is no YAML.
BadDocs ==
    {Mapping(Without(GoodMap("m"), k)) : k \in DOMAIN GoodMap("m")}
    \cup {Mapping(Retyped(GoodMap("m"), k)) : k \in DOMAIN GoodMap("m")}
    \cup {Mapping(GoodMap("m") @@ (<<"author">> :> Str(<<"m", "author">>))),
          Mapping(GoodMap("m") @@ (<<"index", "_", "title">> :> Str(<<"m", "index title">>))),
          Mapping(Without(GoodMap("m"), <<"index", "-", "title">>)
                  @@ (<<"index", "_", "title">> :> Str(<<"m", "index title">>))),
          Mapping(Without(GoodMap("m"), <<"title">>)
                  @@ (<<"Title">> :> Str(<<"m", "title">>))),
          [t |-> "scalar"], [t |-> "invalid"]}

BadDoc == Mapping(Without(GoodMap("m"), <<"description">>))

PostDoc(url, year, show_year, body) ==
    [t |-> "post", url |-> url, year |-> year, show_year |-> show_year, body |-> body]

Stems == <<"p1", "p2", "p3", "p4", "p5", "p6", "p7", "p8">>
PostName(i) == <<Stems[i], ".", "md">>

Years == {2022, 2023, 2024}
Urls == {<<1>>, <<1, 2>>, <<2>>}

Root(sub) == Dir(Base[Len(Base)], sub)

\* Every order read_dir may list a set of entries in.
Perms(S) ==
    {p \in [1..Cardinality(S) -> S] : \A i, j \in 1..Cardinality(S) : p[i] = p[j] => i = j}

\* The places of a tree's entries (the root is <<>>).
RECURSIVE Sites(_)
Sites(entry) ==
    {<<>>} \cup UNION {{<<i>> \o s : s \in Sites(entry.sub[i])} : i \in 1..Len(entry.sub)}

\* A tree with one fault at a place: metadata() fails there, reading fails
\* there, or the manifest there is a document serde refuses.
RECURSIVE Inject(_, _, _)
Inject(entry, site, fault) ==
    IF site # <<>>
    THEN [entry EXCEPT !.sub[Head(site)] = Inject(@, Tail(site), fault)]
    ELSE IF fault = "meta" THEN [entry EXCEPT !.meta = FALSE]
    ELSE IF fault = "ok" THEN [entry EXCEPT !.ok = FALSE]
    ELSE IF entry.kind = "file" /\ entry.name = MANIFEST_FILE
         THEN [entry EXCEPT !.doc = BadDoc]
    ELSE entry

OneFault(tree) == {Inject(tree, s, f) : s \in Sites(tree), f \in {"meta", "ok", "doc"}}

\* The trees and, of each, every tree with one fault.
WithFault(trees) == trees \cup UNION {OneFault(t) : t \in trees}

\* Nested trees.  posts/foo is a blog that holds the blog posts/foo/bar;
\* posts/b is a blog beside entries that are no posts (a directory named
\* d.md holding a content file, a second .yml file, a file named .md, a
\* socket, a
\* content file whose name is not UTF-8), or no blog at all (it holds a
\* directory named blog.yml and a file named blog.yaml), or a blog with no
\* content file; posts itself is a blog or not.  Every directory is listed in every order of its entries
\* that moves the manifest or a subdirectory.
BarDir ==
    Dir(<<"bar">>, <<File(MANIFEST_FILE, GoodDoc("bar")),
                     File(PostName(1), PostDoc(<<2>>, 2023, FALSE, "bar1")),
                     File(PostName(2), PostDoc(<<1>>, 2023, FALSE, "bar2"))>>)

FooEntries ==
    {File(MANIFEST_FILE, GoodDoc("foo")),
     File(PostName(1), PostDoc(<<1>>, 2024, TRUE, "foo1")),
     BarDir}

FooDirs == {Dir(<<"foo">>, sub) : sub \in Perms(FooEntries)}

\* posts/foo in one order: content file, manifest, subdirectory.
FooDir ==
    Dir(<<"foo">>, <<File(PostName(1), PostDoc(<<1>>, 2024, TRUE, "foo1")),
                     File(MANIFEST_FILE, GoodDoc("foo")),
                     BarDir>>)

BDirs ==
    {Dir(<<"b">>, <<Dir(<<"d", ".", "md">>, <<File(PostName(3), PostDoc(<<2>>, 2022, FALSE, "d3"))>>),
                    File(<<"extra", ".", "yml">>, GoodDoc("extra")),
                    File(PostName(1), PostDoc(<<1, 2>>, 2022, FALSE, "b1")),
                    File(MANIFEST_FILE, GoodDoc("b")),
                    File(PostName(2), PostDoc(<<1, 2>>, 2023, FALSE, "b2")),
                    File(PostName(3), PostDoc(<<1>>, 2023, FALSE, "b3")),
                    File(<<".", "md">>, PostDoc(<<2>>, 2024, FALSE, "hidden")),
                    Special(<<"sock", ".", "md">>),
                    File(<<"x", ".", "md", NonUtf8>>, PostDoc(<<2>>, 2024, FALSE, "x"))>>),
     Dir(<<"b">>, <<File(<<"blog", ".", "yaml">>, GoodDoc("yaml")),
                    Dir(MANIFEST_FILE, <<File(PostName(1), PostDoc(<<1>>, 2024, FALSE, "y1")),
                                         Special(MANIFEST_FILE)>>),
                    File(MANIFEST_FILE \o <<NonUtf8>>, GoodDoc("raw"))>>),
     Dir(<<"b">>, <<File(<<"notes", ".", "txt">>, NoDoc),
                    File(MANIFEST_FILE, GoodDoc("b"))>>)}

TreeRoots(foos, bs) ==
    UNION {
        {Root(sub) : sub \in Perms({f, b})}
        \cup {Root(<<File(PostName(1), PostDoc(<<1>>, 2024, FALSE, "r1"))>> \o sub) :
                sub \in Perms({File(MANIFEST_FILE, GoodDoc("root")), f, b})}
        : f \in foos, b \in bs}

\* Every such tree without a fault, and those with posts/foo in the one
\* order also with one fault at any place.
TreeFS == TreeRoots(FooDirs, BDirs) \cup WithFault(TreeRoots({FooDir}, BDirs))

\* Single blogs: a manifest and up to MaxBlogPosts content files, of which
\* each has any url of Urls (repeats included) and any of two years.
RECURSIVE PostFiles(_, _, _)
PostFiles(n, urls, years) ==
    IF n = 0 THEN {<<>>}
    ELSE {Append(fsq, File(PostName(n), PostDoc(u, y, FALSE, Stems[n]))) :
            fsq \in PostFiles(n - 1, urls, years), u \in urls, y \in years}

BlogFS ==
    {Root(<<File(MANIFEST_FILE, GoodDoc("blog"))>> \o posts) :
        posts \in UNION {PostFiles(n, Urls, {2023, 2024}) : n \in 0..MaxBlogPosts}}

\* Year grouping: up to MaxYearPosts content files with distinct urls, any
\* year of Years each, and a show_year from Post::open that is true for
\* every other file.
RECURSIVE YearFiles(_)
YearFiles(n) ==
    IF n = 0 THEN {<<>>}
    ELSE {Append(fsq, File(PostName(n), PostDoc(<<n>>, y, n % 2 = 1, Stems[n]))) :
            fsq \in YearFiles(n - 1), y \in Years}

YearFS ==
    {Root(posts \o <<File(MANIFEST_FILE, GoodDoc("years"))>>) :
        posts \in UNION {YearFiles(n) : n \in 1..MaxYearPosts}}

\* Manifests: every document of BadDocs and two good ones, beside one post.
ManifestFS ==
    {Root(<<File(PostName(1), PostDoc(<<1>>, 2024, FALSE, "m1")), File(MANIFEST_FILE, d)>>) :
        d \in BadDocs \cup {GoodDoc("m"), GoodDoc("n")}}

Filesystems == TreeFS \cup BlogFS \cup YearFS \cup ManifestFS

Init ==
    /\ fs \in Filesystems
    /\ pc = "start"
    /\ stack = <<>>
    /\ cur = NoCur
    /\ blogs = <<>>
    /\ ret = NoRet
    /\ log = <<>>

Spec == Init /\ [][Next]_vars

\* ------------------------------------------------------------ terms of the properties

\* The directory a Blog was loaded from, by its prefix.
DirOf(blog) == Base \o blog.prefix

\* The entries of a directory of the tree, in read_dir order.
Listing(dir) == Lookup(dir)[1].sub

\* The directories of the tree, at any depth, base included.
RECURSIVE DirsUnder(_, _)
DirsUnder(entry, path) ==
    {path} \cup UNION {DirsUnder(entry.sub[i], Append(path, entry.sub[i].name)) :
                        i \in {j \in 1..Len(entry.sub) : entry.sub[j].kind = "dir"}}

AllDirs == DirsUnder(fs, Base)

\* The directories that directly hold a regular file named blog.yml.
BlogDirs ==
    {d \in AllDirs : \E i \in 1..Len(Listing(d)) :
        Listing(d)[i].kind = "file" /\ Listing(d)[i].name = <<"blog", ".", "yml">>}

\* Where the regular files with the extension md are in a directory's listing.
ContentFiles(dir) ==
    {i \in 1..Len(Listing(dir)) :
        LET name == Listing(dir)[i].name
        IN  /\ Listing(dir)[i].kind = "file"
            /\ Len(name) >= 3 /\ name[Len(name)] = "md" /\ name[Len(name) - 1] = "."}

\* Where in the listing of dir the entry of that name is.
IndexOfName(dir, name) == CHOOSE i \in 1..Len(Listing(dir)) : Listing(dir)[i].name = name

\* Where in the listing of dir the content file of the post is.
IndexOfPost(dir, post) ==
    CHOOSE i \in ContentFiles(dir) : Listing(dir)[i].doc.body = post.body

\* The manifest document of a directory and whether it is exactly the five
\* keys with a string, a string, a string, a string and a boolean.
ManifestEntry(dir) == Listing(dir)[IndexOfName(dir, <<"blog", ".", "yml">>)]

FiveKeys ==
    {<<"title">>, <<"index", "-", "title">>, <<"description">>,
     <<"maintained", "-", "by">>, <<"requires", "-", "team">>}

Strict(doc) ==
    /\ doc.t = "mapping"
    /\ DOMAIN doc.map = FiveKeys
    /\ \A k \in FiveKeys :
        doc.map[k].ty = IF k = <<"requires", "-", "team">> THEN "bool" ELSE "String"

\* The directories Blog::load was called on, in call order.
RECURSIVE Paths(_)
Paths(calls) == IF calls = <<>> THEN <<>> ELSE <<Head(calls).path>> \o Paths(Tail(calls))

Origins == Paths(SelectSeq(log, LAMBDA c : c.op = "Blog::load"))

Opened == Paths(SelectSeq(log, LAMBDA c : c.op = "Post::open"))

UrlsOf(posts) == [i \in 1..Len(posts) |-> posts[i].url]
YearsOf(posts) == [i \in 1..Len(posts) |-> posts[i].year]
ShowYears(posts) == [i \in 1..Len(posts) |-> posts[i].show_year]

IsPrefix(p, q) == Len(p) <= Len(q) /\ SubSeq(q, 1, Len(p)) = p

\* The walk meets the manifest of x before that of y: in the listing of the
\* deepest directory holding both, the manifest of x, or the subdirectory
\* leading to x, is listed before the manifest of y, or the subdirectory
\* leading to y.
EncounterBefore(x, y) ==
    LET n == Max({k \in 0..Len(x) : k <= Len(y) /\ SubSeq(x, 1, k) = SubSeq(y, 1, k)})
        c == SubSeq(x, 1, n)
        at(z) == IF Len(z) = n THEN IndexOfName(c, <<"blog", ".", "yml">>)
                 ELSE IndexOfName(c, z[n + 1])
    IN  at(x) < at(y)

\* ------------------------------------------------------------ properties

\* C1: the posts of every Blog that Blog::load returned, when their urls are
\* pairwise distinct, are in strictly descending url order: each post's url
\* is greater than the next one's.
C1_PostsStrictlyDescending ==
    \A b \in 1..Len(blogs) :
        LET posts == blogs[b].posts
        IN  (\A i, j \in 1..Len(posts) : posts[i].url = posts[j].url => i = j)
            => \A i \in 1..(Len(posts) - 1) : StrLess(posts[i + 1].url, posts[i].url)

\* C1's case: a Blog of three posts with distinct urls, one a proper prefix
\* of another, whose files were not listed in descending url order.
C1_Witness ==
    \E b \in 1..Len(blogs) :
        /\ UrlsOf(blogs[b].posts) = << <<2>>, <<1, 2>>, <<1>> >>
        /\ Listing(DirOf(blogs[b]))[2].doc.url = <<1>>

\* C2: in every Blog that Blog::load returned, the first post shows the year
\* and each later post shows it exactly when its year differs from the year
\* of the post before it; the years 2024, 2024, 2023, 2023, 2023, 2022 give
\* true, false, true, false, false, true.
C2_ShowYearByYearChange ==
    \A b \in 1..Len(blogs) :
        LET posts == blogs[b].posts
        IN  /\ Len(posts) >= 1
            /\ posts[1].show_year = TRUE
            /\ \A i \in 2..Len(posts) :
                posts[i].show_year = (posts[i].year # posts[i - 1].year)
            /\ YearsOf(posts) = <<2024, 2024, 2023, 2023, 2023, 2022>>
                => ShowYears(posts) = <<TRUE, FALSE, TRUE, FALSE, FALSE, TRUE>>

\* C2's case: a Blog with the years of the example, whose first post came
\* from Post::open with show_year false and whose second with show_year true.
C2_Witness ==
    \E b \in 1..Len(blogs) :
        LET posts == blogs[b].posts
            dir == DirOf(blogs[b])
        IN  /\ YearsOf(posts) = <<2024, 2024, 2023, 2023, 2023, 2022>>
            /\ Listing(dir)[IndexOfPost(dir, posts[1])].doc.show_year = FALSE
            /\ Listing(dir)[IndexOfPost(dir, posts[2])].doc.show_year = TRUE
            /\ posts[1].show_year /\ ~posts[2].show_year

\* C3: when Blog::load has listed a directory with a valid manifest and no
\* content file, its next step returns an error to the caller of load; and
\* no Blog ever has an empty post list.
C3_EmptyBlogReturnsError ==
    [][/\ (pc = "year" /\ ContentFiles(cur.dir) = {}) => ret'.tag = "Err"
       /\ \A b \in 1..Len(blogs') : blogs'[b].posts # <<>>]_vars

\* The step about to be taken meets a failure: a directory that cannot be
\* listed, an entry whose metadata cannot be read, a manifest that cannot be
\* read or is not the five typed keys, a content file Post::open refuses.
StepFails ==
    \/ pc = "start" /\ ~(fs.kind = "dir" /\ fs.ok)
    \/ /\ pc = "walk"
       /\ Top.idx <= Len(Listing(Top.current))
       /\ LET e == Listing(Top.current)[Top.idx]
          IN  ~e.meta \/ (e.kind = "dir" /\ ~e.ok)
    \/ /\ pc = "manifest"
       /\ ~(ManifestEntry(cur.dir).ok /\ Strict(ManifestEntry(cur.dir).doc))
    \/ /\ pc = "scan"
       /\ cur.idx <= Len(Listing(cur.dir))
       /\ LET e == Listing(cur.dir)[cur.idx]
          IN  ~e.meta \/ (cur.idx \in ContentFiles(cur.dir) /\ ~(e.ok /\ e.doc.t = "post"))

\* C4: a step that meets a failure ends load with an error and no Blog list,
\* whatever was loaded before; and once load has returned an error no
\* directory is listed, no Blog::load is called and no post is opened.
C4_AllOrNothing ==
    [][/\ StepFails => (ret'.tag = "Err" /\ ret'.blogs = <<>> /\ pc' = "done")
       /\ ret.tag = "Err" => UNCHANGED vars]_vars

\* C4's case: load has returned a manifest error after two other blog
\* directories were loaded, and entries of the tree were never visited.
C4_Witness ==
    /\ ret.tag = "Err" /\ ret.kind = "manifest"
    /\ Len(Origins) = 3
    /\ Len(Opened) >= 2
    /\ \E d \in AllDirs : \A i \in 1..Len(log) : log[i].path # d

\* C5: every Blog's prefix is the path of the directory Blog::load was
\* called on relative to base, empty for base itself; serialised it is empty
\* when the prefix is empty and otherwise ends in exactly one '/' after the
\* path: "" for base, "foo/" for base/foo, "foo/bar/" for base/foo/bar.
C5_PrefixRelativeAndSlashed ==
    \A b \in 1..Len(blogs) :
        LET prefix == blogs[b].prefix
            ser == add_postfix_slash(prefix)
        IN  /\ Origins[b] = Base \o prefix
            /\ Origins[b] = Base => prefix = <<>>
            /\ ser = <<>> <=> prefix = <<>>
            /\ ser # <<>> => (ser[Len(ser)] = "/" /\ Len(ser) > 1 /\ ser[Len(ser) - 1] # "/")
            /\ Origins[b] = Base => ser = <<>>
            /\ Origins[b] = Base \o << <<"foo">> >> => ser = <<"foo", "/">>
            /\ Origins[b] = Base \o << <<"foo">>, <<"bar">> >> => ser = <<"foo", "/", "bar", "/">>

\* C5's case: the blog of base and the blog of base/foo/bar are both loaded.
C5_Witness ==
    /\ \E b \in 1..Len(blogs) : Origins[b] = Base /\ blogs[b].prefix = <<>>
    /\ \E b \in 1..Len(blogs) :
        Origins[b] = Base \o << <<"foo">>, <<"bar">> >>
        /\ add_postfix_slash(blogs[b].prefix) = <<"foo", "/", "bar", "/">>

\* C6: when load succeeds, the directories of the returned Blogs are
\* exactly the directories, at any depth, that directly hold a regular file
\* named blog.yml, each once.
C6_OneBlogPerManifestDir ==
    ret.tag = "Ok" =>
        /\ \A d \in BlogDirs :
            Cardinality({b \in 1..Len(ret.blogs) : DirOf(ret.blogs[b]) = d}) = 1
        /\ \A b \in 1..Len(ret.blogs) : DirOf(ret.blogs[b]) \in BlogDirs

\* C6's case: load succeeded on a tree where a blog directory holds another
\* blog directory, a third directory holds a second .yml file beside its
\* manifest, and some directory is no blog.
C6_Witness ==
    /\ ret.tag = "Ok"
    /\ {Base \o << <<"foo">> >>, Base \o << <<"foo">>, <<"bar">> >>, Base \o << <<"b">> >>}
            \subseteq {DirOf(ret.blogs[b]) : b \in 1..Len(ret.blogs)}
    /\ \E i \in 1..Len(Listing(Base \o << <<"b">> >>)) :
            Listing(Base \o << <<"b">> >>)[i].name = <<"extra", ".", "yml">>
    /\ AllDirs \ BlogDirs # {}

\* C7: the posts of every Blog are one Post per regular file with the
\* extension md directly in its directory, each with the url, year and body
\* of its file, and nothing else.
C7_PostsArePermutationOfContentFiles ==
    \A b \in 1..Len(blogs) :
        LET posts == blogs[b].posts
            dir == DirOf(blogs[b])
        IN  /\ Len(posts) = Cardinality(ContentFiles(dir))
            /\ \A i \in ContentFiles(dir) :
                Cardinality({j \in 1..Len(posts) :
                    /\ posts[j].body = Listing(dir)[i].doc.body
                    /\ posts[j].url = Listing(dir)[i].doc.url
                    /\ posts[j].year = Listing(dir)[i].doc.year}) = 1

\* C7's case: a Blog of three posts, two of them with one url, whose
\* directory also holds a directory named d.md with a content file in it, a
\* file named .md, a socket named sock.md and the manifest.
C7_Witness ==
    \E b \in 1..Len(blogs) :
        LET posts == blogs[b].posts
        IN  /\ Len(posts) = 3 /\ posts[1].url = posts[2].url /\ posts[2].url # posts[3].url
            /\ Len(Listing(DirOf(blogs[b]))) = 9

C9_TiesInReverseDiscoveryOrder ==
    \A b \in 1..Len(blogs) :
        LET posts == blogs[b].posts
            dir == DirOf(blogs[b])
        IN  \A i, j \in 1..Len(posts) :
                i < j =>
                    IF posts[i].url = posts[j].url
                    THEN IndexOfPost(dir, posts[i]) > IndexOfPost(dir, posts[j])
                    ELSE StrLess(posts[j].url, posts[i].url)

\* C9's case: a Blog of three posts with one url and different bodies.
C9_Witness ==
    \E b \in 1..Len(blogs) :
        LET posts == blogs[b].posts
        IN  /\ Len(posts) = 3
            /\ posts[1].url = posts[2].url /\ posts[2].url = posts[3].url
            /\ posts[1].body # posts[2].body /\ posts[2].body # posts[3].body

\* C10: the Blogs are in the order in which the walk meets their manifests:
\* of two Blogs, the first is the one whose manifest, or the subdirectory
\* leading to it, is listed first in the deepest directory holding both; and
\* the Blogs found under one directory are next to one another.
C10_BlogsInTraversalOrder ==
    /\ \A i, j \in 1..Len(blogs) :
        i < j => EncounterBefore(DirOf(blogs[i]), DirOf(blogs[j]))
    /\ \A d \in AllDirs : \A i, j, k \in 1..Len(blogs) :
        (i < j /\ j < k /\ IsPrefix(d, DirOf(blogs[i])) /\ IsPrefix(d, DirOf(blogs[k])))
            => IsPrefix(d, DirOf(blogs[j]))

\* C10's case: four Blogs, that of base after that of one subdirectory and
\* before those of another, which holds a blog of its own listed before its
\* manifest.
C10_Witness ==
    /\ Len(blogs) = 4
    /\ DirOf(blogs[1]) = Base \o << <<"b">> >>
    /\ DirOf(blogs[2]) = Base
    /\ DirOf(blogs[3]) = Base \o << <<"foo">>, <<"bar">> >>
    /\ DirOf(blogs[4]) = Base \o << <<"foo">> >>
====
